---- MODULE Spec2Model ----
\* A model of bls/api.py: the credential holder (_KEY, set_api_key,
\* unset_api_key), the request builder and paginator (get_json_series over
\* _get_json_subset), the series parser (parse_series) and the result
\* assembler (get_series).
\*
\* One invocation of get_json_series / get_series is a run of steps: Invoke
\* (lines 67-88: argument normalisation, year-range resolution, the key check
\* and the choice between one call and pagination), then one step per physical
\* call (_get_json_subset, whose response is the remote service's choice), the
\* last of which also runs everything the code does after the last response
\* (the merge at line 95, and for get_series lines 161-186).
EXTENDS Integers, Sequences, FiniteSets, TLC

\* ---------------------------------------------------------------- bounds

\* datetime.date.today().year (line 72), the environment's current year.
ThisYear == 43

\* How far beyond ThisYear a caller-supplied year may lie.
YearsAhead == 3

\* Longest data list handed to parse_series directly.
MaxObs == 2

\* ------------------------------------------------------ program constants

\* min(startyear + 9, thisyear), endyear - 9 (lines 78, 81).
UnkeyedSpan == 9
\* endyear - 19 (line 81).
KeyedSpan == 19
\* endyear - startyear >= 10 (line 83).
UnkeyedLimit == 10
\* endyear - startyear >= 20 (line 86).
PageThreshold == 20
\* sub_end = startyear + 18 (line 88).
FirstWindow == 18
\* min(sub_end + 20, endyear) (line 92).
WindowStep == 20

\* ------------------------------------------------------------ Python values

\* Optional values: None, or a one-element tuple holding the value.
None == <<>>
Some(x) == <<x>>
Val(o) == o[1]

Min(a, b) == IF a <= b THEN a ELSE b

\* Caller-supplied years, after int() (lines 69-70). 0 is a legal int.
Years == 0 .. (ThisYear + YearsAhead)
OptYears == {None} \cup {Some(y) : y \in Years}

\* The series argument: a bare id (str) or a sequence of ids.
Bare(id) == [bare |-> TRUE, ids |-> <<id>>]
Listed(ids) == [bare |-> FALSE, ids |-> ids]

\* An observation {year, period, value}; the period code is its letter and its
\* 2-digit index ("M13" is <<"M", 13>>).
Obs(y, letter, nn) == [year |-> y, period |-> <<letter, nn>>, value |-> (y * 100) + nn]

\* ------------------------------------------------------------------- state

VARIABLES
    env_key,           \* os.environ.get("BLS_API_KEY") at import (line 26)
    KEY,               \* _KEY.key (line 29)
    last_op,           \* history: the most recent set_api_key / unset_api_key
    pc,                \* "idle", "calling", "returned", "raised"
    query,             \* the arguments of the invocation in progress
    key,               \* local key (line 71)
    startyear,         \* local startyear after line 81
    endyear,           \* local endyear after line 78
    mode,              \* "none", "single" (line 96), "paged" (lines 87-95)
    sub_start,         \* line 88 / 92
    sub_end,           \* line 88 / 92
    compiled_results,  \* line 87, as the ordered list of (seriesID, data)
    calls,             \* history: the physical calls (requests.post) issued
    responses,         \* history: the series lists of the successful calls
    failed_at,         \* history: index of the call that failed, 0 if none
    outcome,           \* "none", "json", "table", "series", "parsed",
                       \* "ValueError", "RuntimeError"
    result,            \* the value returned, <<>> if none
    warned,            \* warnings.warn was called (line 172)
    parse_arg          \* the argument of a direct parse_series call, else None

vars == <<env_key, KEY, last_op, pc, query, key, startyear, endyear, mode,
          sub_start, sub_end, compiled_results, calls, responses, failed_at,
          outcome, result, warned, parse_arg>>

holder == <<env_key, KEY, last_op>>
locals == <<query, key, startyear, endyear, mode, sub_start, sub_end,
            compiled_results, calls, responses, failed_at, outcome, result,
            warned, parse_arg>>

\* --------------------------------------------------------------- inputs

EnvKeys == {None, Some("ENV")}
SetKeys == {"K1"}
ArgKeys == {None, Some("K2")}

NoQuery == [api |-> "none", series |-> Bare("A"), startyear |-> None,
            endyear |-> None, key |-> None, errors |-> "raise"]

\* get_json_series over every pair of years, for one bare series id.
WideQueries ==
    [api : {"get_json_series"}, series : {Bare("A")}, startyear : OptYears,
     endyear : OptYears, key : ArgKeys, errors : {"raise"}]

\* get_series over a few year ranges (defaults, a short range, a range of two
\* pages), for every shape of the series argument and both error policies.
NarrowYears == {<<None, None>>, <<Some(30), Some(35)>>, <<Some(20), Some(ThisYear)>>}
SeriesArgs == {Bare("A"), Listed(<<"A">>), Listed(<<"A", "B">>), Listed(<<"A", "A">>)}
NarrowQueries ==
    {[api |-> "get_series", series |-> s, startyear |-> yy[1], endyear |-> yy[2],
      key |-> k, errors |-> e] :
        s \in SeriesArgs, yy \in NarrowYears, k \in ArgKeys, e \in {"raise", "ignore"}}

\* get_json_series for lists of ids (two ids, one id twice) over two pages.
ListQueries ==
    {[api |-> "get_json_series", series |-> s, startyear |-> Some(20),
      endyear |-> Some(ThisYear), key |-> k, errors |-> "raise"] :
        s \in {Listed(<<"A", "B">>), Listed(<<"A", "A">>)}, k \in ArgKeys}

Queries == WideQueries \cup NarrowQueries \cup ListQueries

\* ------------------------------------------------- the remote service

\* What one physical call for [s, e] may return for one series id: nothing, or
\* observations of that window, newest first as the provider lists them.
DataChoices(s, e) ==
    {<<>>, <<Obs(e, "M", 2)>>, <<Obs(e, "M", 2), Obs(s, "M", 1)>>}

Range(seq) == {seq[i] : i \in 1 .. Len(seq)}

\* Results.series of a successful response: one entry per requested id, in
\* request order, d giving each id's data.
Respond(ids, d) ==
    [i \in 1 .. Len(ids) |-> [seriesID |-> ids[i], data |-> d[ids[i]]]]

\* --------------------------------------------- get_json_series, lines 67-96

\* key = key if key is not None else _KEY.key
EffectiveKey(argkey, holderkey) ==
    IF argkey # None THEN argkey ELSE holderkey

\* Lines 74-78; the result is the local endyear.
ResolveEndYear(sy, ey, k, ty) ==
    IF ey = None \/ Val(ey) > ty
    THEN IF sy = None \/ k # None
         THEN ty
         ELSE Min(Val(sy) + UnkeyedSpan, ty)
    ELSE Val(ey)

\* Lines 80-81: "not startyear" is true of None and of 0; ey is the resolved
\* endyear.
ResolveStartYear(sy, ey, k) ==
    IF sy = None \/ Val(sy) = 0
    THEN ey - (IF k = None THEN UnkeyedSpan ELSE KeyedSpan)
    ELSE Val(sy)

\* Line 83.
SpanTooLarge_Strict(k, sy, ey) == k = None /\ ey - sy > UnkeyedLimit

SpanTooLarge(k, sy, ey) == k = None /\ ey - sy >= UnkeyedLimit

\* Line 86: "startyear and ...".
Paginate(sy, ey) == sy # 0 /\ ey - sy >= PageThreshold

\* Line 88.
FirstSubEnd(sy) == sy + FirstWindow

\* Line 92, the new sub_end.
NextSubEnd_Long(se, ey) == Min(se + WindowStep + 1, ey)

NextSubEnd(se, ey) == Min(se + WindowStep, ey)

\* Line 92, the new sub_start.
NextSubStart_Overlap(se) == se

NextSubStart(se) == se + 1

\* Lines 93-94: "if sub_start > endyear: break", on the new sub_start.
LoopDone_Late(ns, ey) == ns > ey + 1

LoopDone(ns, ey) == ns > ey

\* Line 91: compiled_results[result["seriesID"]].extend(result["data"]); a
\* defaultdict keeps its keys in insertion order.
ExtendOne_Replace(compiled, r) ==
    IF \E i \in 1 .. Len(compiled) : compiled[i].seriesID = r.seriesID
    THEN [i \in 1 .. Len(compiled) |->
            IF compiled[i].seriesID = r.seriesID
            THEN [compiled[i] EXCEPT !.data = r.data]
            ELSE compiled[i]]
    ELSE Append(compiled, [seriesID |-> r.seriesID, data |-> r.data])

ExtendOne(compiled, r) ==
    IF \E i \in 1 .. Len(compiled) : compiled[i].seriesID = r.seriesID
    THEN [i \in 1 .. Len(compiled) |->
            IF compiled[i].seriesID = r.seriesID
            THEN [compiled[i] EXCEPT !.data = @ \o r.data]
            ELSE compiled[i]]
    ELSE Append(compiled, [seriesID |-> r.seriesID, data |-> r.data])

\* Lines 90-91: the for loop over one call's results.
RECURSIVE Extend(_, _)
Extend(compiled, results) ==
    IF results = <<>>
    THEN compiled
    ELSE Extend(ExtendOne(compiled, Head(results)), Tail(results))

\* ------------------------------------------------ parse_series, lines 99-133

\* df["period"].iloc[0][0] (line 106).
Freq(data) == data[1].period[1]

\* A period of the parsed index: the year, the quarter of a year, the month of
\* a year.
Period(f, y, n) == [freq |-> f, year |-> y, sub |-> n]

\* pd.to_datetime of one row's text (lines 109, 116-118, 126-128), followed by
\* to_period; None where the text is no date and the conversion raises.
\*   annual:    "YYYY"                        -> the year
\*   quarterly: "YYYY" + "Qnn" with Q0 -> Q   -> quarter n of the year, n in 1..4
\*   monthly:   "YYYY" + "Mnn" with M -> -    -> month nn of the year, nn in 1..12
ToDatetime(f, o) ==
    CASE f = "A" -> Some(Period("A", o.year, 1))
      [] f = "Q" -> IF o.period[2] \in 1 .. 4
                    THEN Some(Period("Q", o.year, o.period[2]))
                    ELSE None
      [] f = "M" -> IF o.period[2] \in 1 .. 12
                    THEN Some(Period("M", o.year, o.period[2]))
                    ELSE None

\* df.assign(date=pd.to_datetime(...)): the date column over every row.
Dates(f, data) == [i \in 1 .. Len(data) |-> ToDatetime(f, data[i])]

\* [df["period"] != "M13"] (line 129): the row numbers kept, in order.
RECURSIVE KeptRows(_, _)
KeptRows(data, i) ==
    IF i > Len(data)
    THEN <<>>
    ELSE (IF data[i].period # <<"M", 13>> THEN <<i>> ELSE <<>>) \o KeptRows(data, i + 1)

AllRows(data, i) == [j \in 1 .. Len(data) |-> j]

\* The rows the monthly branch indexes, after the date column was computed.
MonthlyRows(data, i) == KeptRows(data, i)

\* set_index("date").to_period(...)["value"] over the rows kept.
Indexed(dates, data, rows) ==
    [j \in 1 .. Len(rows) |-> [period |-> Val(dates[rows[j]]), value |-> data[rows[j]].value]]

\* parse_series: [err, data], err "none" when a parsed series is returned.
ParseSeries(series) ==
    IF series.data = <<>>
    THEN [err |-> "ValueError:empty", data |-> <<>>]
    ELSE LET f == Freq(series.data)
         IN IF f \notin {"A", "Q", "M"}
            THEN [err |-> "ValueError:period", data |-> <<>>]
            ELSE LET dates == Dates(f, series.data)
                     rows == IF f = "M" THEN MonthlyRows(series.data, 1)
                                        ELSE AllRows(series.data, 1)
                 IN IF \E i \in 1 .. Len(dates) : dates[i] = None
                    THEN [err |-> "ValueError:date", data |-> <<>>]
                    ELSE [err |-> "none", data |-> Indexed(dates, series.data, rows)]

\* ------------------------------------------------ get_series, lines 160-186

\* Line 161: [res["seriesID"] for res in results if not res["data"]].
RECURSIVE InvalidIds(_)
InvalidIds(results) ==
    IF results = <<>>
    THEN <<>>
    ELSE (IF Head(results).data = <<>> THEN <<Head(results).seriesID>> ELSE <<>>)
         \o InvalidIds(Tail(results))

\* Lines 166-170; len(series) is read only when series is no str.
MustRaise(series, invalid_ids, errors) ==
    \/ series.bare
    \/ Len(invalid_ids) = Len(series.ids)
    \/ errors = "raise"

\* One store of the dict comprehension of lines 175-179: a repeated key keeps
\* its place and takes the later value.
DictPut(cols, id, parsed) ==
    IF \E i \in 1 .. Len(cols) : cols[i].seriesID = id
    THEN [i \in 1 .. Len(cols) |->
            IF cols[i].seriesID = id THEN [seriesID |-> id, data |-> parsed] ELSE cols[i]]
    ELSE Append(cols, [seriesID |-> id, data |-> parsed])

\* Lines 175-179: {result["seriesID"]: parse_series(result) for result in
\* results if result["data"]}; [err, cols], err the first parse error.
RECURSIVE ParsedColumns(_, _)
ParsedColumns(results, cols) ==
    IF results = <<>>
    THEN [err |-> "none", cols |-> cols]
    ELSE IF Head(results).data = <<>>
         THEN ParsedColumns(Tail(results), cols)
         ELSE LET parsed == ParseSeries(Head(results))
              IN IF parsed.err # "none"
                 THEN [err |-> parsed.err, cols |-> <<>>]
                 ELSE ParsedColumns(Tail(results),
                                    DictPut(cols, Head(results).seriesID, parsed.data))

\* The order of periods of one frequency.
PeriodKey(p) == (p.year * 100) + p.sub

\* sort_index (line 182) over the union of the columns' periods, on which
\* pd.DataFrame aligns the columns.
RECURSIVE SortedPeriods(_)
SortedPeriods(ps) ==
    IF ps = {}
    THEN <<>>
    ELSE LET least == CHOOSE p \in ps : \A r \in ps : PeriodKey(p) <= PeriodKey(r)
         IN <<least>> \o SortedPeriods(ps \ {least})

PeriodsOf(cols) ==
    UNION {{cols[i].data[j].period : j \in 1 .. Len(cols[i].data)} : i \in 1 .. Len(cols)}

\* .map(float) (line 181) of one cell.
Float(v) == [float |-> v]

\* One column over the sorted index: the float of the value at each period,
\* None (NaN) where the series has no entry for it. The periods of one series
\* are distinct in every response of the model.
Column(col, index) ==
    [seriesID |-> col.seriesID,
     values |-> [k \in 1 .. Len(index) |->
                    IF \E j \in 1 .. Len(col.data) : col.data[j].period = index[k]
                    THEN Some(Float((CHOOSE e \in Range(col.data) : e.period = index[k]).value))
                    ELSE None]]

\* Lines 173-183.
Table(cols) ==
    LET index == SortedPeriods(PeriodsOf(cols))
    IN [index |-> index, columns |-> [i \in 1 .. Len(cols) |-> Column(cols[i], index)]]

\* Lines 161-186 on the results of get_json_series: what get_series does after
\* the last response. [outcome, result, warned].
Assemble(series, errors, results) ==
    LET invalid_ids == InvalidIds(results)
        raise == invalid_ids # <<>> /\ MustRaise(series, invalid_ids, errors)
        warn == invalid_ids # <<>> /\ ~raise
        built == ParsedColumns(results, <<>>)
    IN IF raise
       THEN [outcome |-> "ValueError:empty", result |-> None, warned |-> FALSE]
       ELSE IF built.err # "none"
            THEN [outcome |-> built.err, result |-> None, warned |-> warn]
            ELSE IF series.bare
                 THEN [outcome |-> "series",
                       result |-> Some([index |-> Table(built.cols).index,
                                        columns |-> <<Table(built.cols).columns[1]>>]),
                       warned |-> warn]
                 ELSE [outcome |-> "table", result |-> Some(Table(built.cols)),
                       warned |-> warn]

\* What parse_series is handed directly: a series of one period family
\* (monthly with and without the M13 row, quarterly, annual, an unknown
\* family), or no data.
FamilyObs(letter) ==
    {Obs(y, letter, nn) : y \in 1 .. 2,
                          nn \in (CASE letter = "M" -> {1, 12, 13}
                                    [] letter = "Q" -> {1, 4}
                                    [] OTHER -> {1})}

SeqsUpTo(S, n) == UNION {[1 .. k -> S] : k \in 0 .. n}

ParseInputs ==
    {[seriesID |-> "A", data |-> d] :
        d \in UNION {SeqsUpTo(FamilyObs(letter), MaxObs) : letter \in {"M", "Q", "A", "S"}}}

\* ------------------------------------------------------------------ actions

Init ==
    /\ env_key \in EnvKeys
    /\ KEY = env_key
    /\ last_op = [op |-> "none", key |-> None]
    /\ pc = "idle"
    /\ query = NoQuery
    /\ key = None
    /\ startyear = 0
    /\ endyear = 0
    /\ mode = "none"
    /\ sub_start = 0
    /\ sub_end = 0
    /\ compiled_results = <<>>
    /\ calls = <<>>
    /\ responses = <<>>
    /\ failed_at = 0
    /\ outcome = "none"
    /\ result = None
    /\ warned = FALSE
    /\ parse_arg = None

\* set_api_key(key), lines 32-33.
SetApiKey(k) ==
    /\ pc = "idle"
    /\ KEY' = Some(k)
    /\ last_op' = [op |-> "set", key |-> Some(k)]
    /\ UNCHANGED <<env_key, pc, locals>>

\* unset_api_key(), lines 36-37.
UnsetApiKey_Restore ==
    /\ pc = "idle"
    /\ KEY' = env_key
    /\ last_op' = [op |-> "unset", key |-> None]
    /\ UNCHANGED <<env_key, pc, locals>>

UnsetApiKey ==
    /\ pc = "idle"
    /\ KEY' = None
    /\ last_op' = [op |-> "unset", key |-> None]
    /\ UNCHANGED <<env_key, pc, locals>>

\* get_json_series (called directly or from get_series, line 160) up to its
\* first physical call: lines 67-88.
Invoke(q) ==
    /\ pc = "idle"
    /\ LET k == EffectiveKey(q.key, KEY)
           ey == ResolveEndYear(q.startyear, q.endyear, k, ThisYear)
           sy == ResolveStartYear(q.startyear, ey, k)
       IN /\ query' = q
          /\ key' = k
          /\ startyear' = sy
          /\ endyear' = ey
          /\ IF SpanTooLarge(k, sy, ey)
             THEN /\ pc' = "raised"
                  /\ outcome' = "ValueError"
                  /\ UNCHANGED <<mode, sub_start, sub_end>>
             ELSE /\ pc' = "calling"
                  /\ outcome' = "none"
                  /\ IF Paginate(sy, ey)
                     THEN /\ mode' = "paged"
                          /\ sub_start' = sy
                          /\ sub_end' = FirstSubEnd(sy)
                     ELSE /\ mode' = "single"
                          /\ sub_start' = sy
                          /\ sub_end' = ey
    /\ UNCHANGED <<holder, compiled_results, calls, responses, failed_at, result,
                   warned, parse_arg>>

\* The request of the physical call about to be issued (lines 46-53).
Request ==
    [series |-> query.series.ids, startyear |-> sub_start, endyear |-> sub_end,
     key |-> key]

\* A physical call that fails: requests.post raises ("TransportError"), or
\* the status is not REQUEST_SUCCEEDED (lines 56-57). Nothing catches it.
CallFails_Swallowed(e) ==
    /\ pc = "calling"
    /\ calls' = Append(calls, Request)
    /\ failed_at' = Len(calls) + 1
    /\ IF mode = "paged" /\ NextSubStart(sub_end) <= endyear
       THEN /\ pc' = "calling"
            /\ sub_start' = NextSubStart(sub_end)
            /\ sub_end' = NextSubEnd(sub_end, endyear)
            /\ UNCHANGED outcome
       ELSE /\ pc' = "raised"
            /\ outcome' = e
            /\ UNCHANGED <<sub_start, sub_end>>
    /\ UNCHANGED <<holder, query, key, startyear, endyear, mode, compiled_results,
                   responses, result, warned, parse_arg>>

CallFails(e) ==
    /\ pc = "calling"
    /\ calls' = Append(calls, Request)
    /\ failed_at' = Len(calls) + 1
    /\ pc' = "raised"
    /\ outcome' = e
    /\ UNCHANGED <<holder, query, key, startyear, endyear, mode, sub_start, sub_end,
                   compiled_results, responses, result, warned, parse_arg>>

\* What the invocation does with the results of get_json_series: returns them
\* (get_json_series), or assembles them (get_series, lines 161-186).
Finish(results) ==
    IF query.api = "get_json_series"
    THEN [outcome |-> "json", result |-> Some(results), warned |-> FALSE]
    ELSE Assemble(query.series, query.errors, results)

\* A physical call that succeeds with the data d: id -> observations. In
\* single-call mode (line 96) its series list is the result; in pagination
\* mode (lines 90-95) it is merged, the window advances, and the loop ends
\* when sub_start > endyear.
CallSucceeds(d) ==
    /\ pc = "calling"
    /\ LET resp == Respond(query.series.ids, d)
           merged == Extend(compiled_results, resp)
           last == mode = "single" \/ LoopDone(NextSubStart(sub_end), endyear)
           fin == Finish(IF mode = "single" THEN resp ELSE merged)
       IN /\ calls' = Append(calls, Request)
          /\ responses' = Append(responses, resp)
          /\ compiled_results' = IF mode = "paged" THEN merged ELSE compiled_results
          /\ IF mode = "paged"
             THEN /\ sub_start' = NextSubStart(sub_end)
                  /\ sub_end' = NextSubEnd(sub_end, endyear)
             ELSE UNCHANGED <<sub_start, sub_end>>
          /\ IF last
             THEN /\ pc' = IF fin.outcome \in {"json", "table", "series"}
                           THEN "returned" ELSE "raised"
                  /\ outcome' = fin.outcome
                  /\ result' = fin.result
                  /\ warned' = fin.warned
             ELSE /\ pc' = "calling"
                  /\ UNCHANGED <<outcome, result, warned>>
    /\ UNCHANGED <<holder, query, key, startyear, endyear, mode, failed_at, parse_arg>>

\* parse_series(series) called directly, lines 99-133.
ParseSeriesCall(series) ==
    /\ pc = "idle"
    /\ LET parsed == ParseSeries(series)
       IN /\ parse_arg' = Some(series)
          /\ query' = [NoQuery EXCEPT !.api = "parse_series"]
          /\ IF parsed.err = "none"
             THEN /\ pc' = "returned"
                  /\ outcome' = "parsed"
                  /\ result' = Some(parsed.data)
             ELSE /\ pc' = "raised"
                  /\ outcome' = parsed.err
                  /\ result' = None
    /\ UNCHANGED <<holder, key, startyear, endyear, mode, sub_start, sub_end,
                   compiled_results, calls, responses, failed_at, warned>>

\* The invocation is over (a value was returned or an exception propagated);
\* every local of it is discarded.
Return ==
    /\ pc \in {"returned", "raised"}
    /\ pc' = "idle"
    /\ query' = NoQuery
    /\ key' = None
    /\ startyear' = 0
    /\ endyear' = 0
    /\ mode' = "none"
    /\ sub_start' = 0
    /\ sub_end' = 0
    /\ compiled_results' = <<>>
    /\ calls' = <<>>
    /\ responses' = <<>>
    /\ failed_at' = 0
    /\ outcome' = "none"
    /\ result' = None
    /\ warned' = FALSE
    /\ parse_arg' = None
    /\ UNCHANGED holder

\* Each disjunct states its action's guard on pc before drawing the inputs.
Next ==
    \/ pc = "idle" /\ \E k \in SetKeys : SetApiKey(k)
    \/ UnsetApiKey
    \/ pc = "idle" /\ \E q \in Queries : Invoke(q)
    \/ pc = "calling" /\ \E e \in {"RuntimeError", "TransportError"} : CallFails(e)
    \/ pc = "calling" /\
         \E d \in [Range(query.series.ids) -> DataChoices(sub_start, sub_end)] :
            CallSucceeds(d)
    \/ pc = "idle" /\ \E series \in ParseInputs : ParseSeriesCall(series)
    \/ Return

Spec == Init /\ [][Next]_vars

\* ------------------------------------------------------------ properties

\* An invocation of get_json_series or get_series is in progress or has just
\* ended.
Active == query.api \in {"get_json_series", "get_series"}

\* The span of the i-th physical call.
CallSpan(i) == calls[i].endyear - calls[i].startyear

\* C1, as stated: with no key in effect and caller-supplied years such that
\* end_year - start_year >= 10, get_json_series raises the configuration error
\* and issues no physical call.
C1_SuppliedSpanRaises ==
    (/\ Active
     /\ key = None
     /\ query.startyear # None
     /\ query.endyear # None
     /\ Val(query.endyear) - Val(query.startyear) >= 10)
    => (outcome = "ValueError" /\ calls = <<>>)

\* C1, amended: with no key in effect and RESOLVED years (after lines 74-81)
\* such that endyear - startyear >= 10, get_json_series raises the
\* configuration error and issues no physical call.
C1_ResolvedSpanRaises ==
    (Active /\ key = None /\ endyear - startyear >= 10)
    => (pc = "raised" /\ outcome = "ValueError" /\ calls = <<>> /\ result = None)

C1_Witness ==
    /\ Active
    /\ key = None
    /\ query.startyear # None
    /\ query.endyear # None
    /\ endyear - startyear = 10
    /\ outcome = "ValueError"

\* C7: every physical call spans fewer than 10 years when no key is in effect
\* and fewer than 20 years when a key is in effect, in single-call mode and in
\* every window of pagination mode.
C7_CallsWithinSpanLimit ==
    \A i \in 1 .. Len(calls) :
        IF calls[i].key = None THEN CallSpan(i) < 10 ELSE CallSpan(i) < 20

C7_Witness ==
    /\ mode = "paged"
    /\ Len(calls) >= 3
    /\ CallSpan(2) = 19
    /\ calls[2].key # None

\* The year range the resolution algorithm of the specification gives for the
\* query: end_year, then start_year.
StatedEndYear ==
    IF query.endyear = None \/ Val(query.endyear) > ThisYear
    THEN IF query.startyear = None \/ key # None
         THEN ThisYear
         ELSE Min(Val(query.startyear) + 9, ThisYear)
    ELSE Val(query.endyear)

StatedStartYear ==
    IF query.startyear = None
    THEN StatedEndYear - (IF key = None THEN 9 ELSE 19)
    ELSE Val(query.startyear)

\* C9, as stated: the resolved end_year and start_year are those of the stated
\* algorithm for every input; a start_year the caller supplied is used
\* unchanged.
C9_ResolutionAsStated ==
    Active => (endyear = StatedEndYear /\ startyear = StatedStartYear)

\* C10, as stated: when the supplied start_year (if any) does not exceed the
\* supplied end_year (if any), every physical call has start_year <= end_year.
C10_SuppliedOrderKept ==
    (/\ Active
     /\ (query.startyear # None /\ query.endyear # None
            => Val(query.startyear) <= Val(query.endyear)))
    => \A i \in 1 .. Len(calls) : calls[i].startyear <= calls[i].endyear

\* C10, amended: when the supplied start_year (if any) exceeds neither the
\* supplied end_year (if any) nor the current year, every physical call has
\* start_year <= end_year.
C10_OrderKeptUpToThisYear ==
    (/\ Active
     /\ (query.startyear # None /\ query.endyear # None
            => Val(query.startyear) <= Val(query.endyear))
     /\ (query.startyear # None => Val(query.startyear) <= ThisYear))
    => \A i \in 1 .. Len(calls) : calls[i].startyear <= calls[i].endyear

C10_Witness ==
    /\ mode = "paged"
    /\ pc = "returned"
    /\ query.endyear # None
    /\ Val(query.endyear) > ThisYear
    /\ Len(calls) >= 3
    /\ calls[3].startyear = calls[3].endyear

\* Every physical call of the invocation was issued and answered: the
\* invocation is past get_json_series.
AllCallsDone == pc \in {"returned", "raised"} /\ failed_at = 0 /\ calls # <<>>

\* The number of calls that request year y.
CallsFor(y) ==
    Cardinality({i \in 1 .. Len(calls) : calls[i].startyear <= y /\ y <= calls[i].endyear})

\* C2: with a key in effect and resolved end_year - start_year >= 20, the
\* physical calls are consecutive non-overlapping windows in ascending order:
\* the first is [start_year, start_year + 18], each later one is
\* [previous_end + 1, min(previous_end + 20, end_year)], no call follows the
\* one whose end is end_year, and once all are issued every year of
\* [start_year, end_year] is requested exactly once, by
\* 1 + ceil((end_year - start_year - 18) / 20) calls.
C2_PaginationWindows ==
    (Active /\ key # None /\ endyear - startyear >= 20)
    => /\ mode = "paged"
       /\ \A i \in 1 .. Len(calls) :
            /\ i = 1 => /\ calls[i].startyear = startyear
                        /\ calls[i].endyear = startyear + 18
            /\ i > 1 => /\ calls[i].startyear = calls[i - 1].endyear + 1
                        /\ calls[i].endyear = Min(calls[i - 1].endyear + 20, endyear)
            /\ i < Len(calls) => calls[i].endyear < endyear
       /\ (pc = "calling" /\ calls # <<>>) => calls[Len(calls)].endyear < endyear
       /\ AllCallsDone =>
            /\ calls[Len(calls)].endyear = endyear
            /\ \A y \in startyear .. endyear : CallsFor(y) = 1
            /\ Len(calls) = 1 + ((endyear - startyear - 18 + 19) \div 20)

C2_Witness ==
    /\ mode = "paged"
    /\ key # None
    /\ AllCallsDone
    /\ Len(calls) = 3
    /\ endyear - startyear = 39

\* The observations of series id in one response, in the response's order.
RECURSIVE DataOf(_, _)
DataOf(id, resp) ==
    IF resp = <<>>
    THEN <<>>
    ELSE (IF Head(resp).seriesID = id THEN Head(resp).data ELSE <<>>)
         \o DataOf(id, Tail(resp))

\* The observations of series id over the responses, in call order.
RECURSIVE DataOver(_, _)
DataOver(id, resps) ==
    IF resps = <<>>
    THEN <<>>
    ELSE DataOf(id, Head(resps)) \o DataOver(id, Tail(resps))

ReturnedIds(resps) ==
    UNION {{resps[c][i].seriesID : i \in 1 .. Len(resps[c])} : c \in 1 .. Len(resps)}

\* merged holds one entry per id of the responses, each the concatenation of
\* the id's observations in call order.
IsMergeOf(merged, resps) ==
    /\ \A i, j \in 1 .. Len(merged) : merged[i].seriesID = merged[j].seriesID => i = j
    /\ {merged[i].seriesID : i \in 1 .. Len(merged)} = ReturnedIds(resps)
    /\ \A i \in 1 .. Len(merged) : merged[i].data = DataOver(merged[i].seriesID, resps)

\* C3: in pagination mode the merged result has exactly one entry per distinct
\* series id returned by any physical call, whose data is the concatenation of
\* that id's observation lists in the order the calls were issued, nothing
\* dropped, duplicated or reordered; that is what get_json_series returns.
C3_MergeInCallOrder ==
    mode = "paged"
    => /\ IsMergeOf(compiled_results, responses)
       /\ outcome = "json" => Val(result) = compiled_results

C3_Witness ==
    /\ mode = "paged"
    /\ outcome = "json"
    /\ Len(Val(result)) = 2
    /\ Len(Val(result)[1].data) = 3
    /\ Len(Val(result)[2].data) = 4

\* C5: when a physical call fails (transport error or a status other than
\* success), the invocation fails with that error: nothing is returned, no
\* warning stands in for it, and the failing call is the last call issued,
\* whatever the errors policy.
C5_FailureAbortsInvocation ==
    failed_at # 0
    => /\ pc = "raised"
       /\ outcome \in {"RuntimeError", "TransportError"}
       /\ result = None
       /\ ~warned
       /\ Len(calls) = failed_at

C5_Witness ==
    /\ mode = "paged"
    /\ query.api = "get_series"
    /\ query.errors = "ignore"
    /\ failed_at = 2
    /\ Len(responses) = 1
    /\ pc = "raised"

\* The key the holder has after the operations performed on it so far.
HolderKeyByHistory ==
    CASE last_op.op = "set" -> last_op.key
      [] last_op.op = "unset" -> None
      [] last_op.op = "none" -> env_key

\* C6: the holder's key is the argument of the most recent set_api_key, no key
\* after unset_api_key (also when the environment supplied one), and the
\* environment's default if neither was called; a call that passes no key uses
\* the holder's key, a call that passes a key uses that key, in every physical
\* call, and the holder is as the last operation left it.
C6_KeyInEffect ==
    /\ KEY = HolderKeyByHistory
    /\ Active =>
         /\ key = (IF query.key # None THEN query.key ELSE HolderKeyByHistory)
         /\ \A i \in 1 .. Len(calls) : calls[i].key = key

C6_Witness ==
    /\ Active
    /\ env_key # None
    /\ last_op.op = "unset"
    /\ query.key = None
    /\ calls # <<>>
    /\ calls[1].key = None

\* What get_json_series handed to get_series (line 160).
JsonResults == IF mode = "paged" THEN compiled_results ELSE responses[1]

\* A requested id is invalid: no physical call returned an observation of it.
Invalid(id) == DataOver(id, responses) = <<>>

\* C4, as stated: when some returned series has empty data, get_series raises
\* the empty-series error if and only if the request was a bare series id, or
\* every requested series is invalid, or the policy is "raise"; otherwise it
\* warns and returns a table of exactly the series with data.
C4_EmptySeriesPolicy ==
    (/\ query.api = "get_series"
     /\ AllCallsDone
     /\ \E i \in 1 .. Len(JsonResults) : JsonResults[i].data = <<>>)
    => LET fatal == \/ query.series.bare
                    \/ \A id \in Range(query.series.ids) : Invalid(id)
                    \/ query.errors = "raise"
       IN /\ (outcome = "ValueError:empty") <=> fatal
          /\ ~fatal =>
               /\ warned
               /\ outcome = "table"
               /\ {Val(result).columns[i].seriesID : i \in 1 .. Len(Val(result).columns)}
                    = {id \in Range(query.series.ids) : ~Invalid(id)}

\* The entries the claim expects of a monthly series: one per observation of
\* code M01..M12, in input order, indexed by its year and month.
RECURSIVE MonthEntries(_)
MonthEntries(data) ==
    IF data = <<>>
    THEN <<>>
    ELSE (IF Head(data).period[2] \in 1 .. 12
          THEN <<[period |-> Period("M", Head(data).year, Head(data).period[2]),
                  value |-> Head(data).value]>>
          ELSE <<>>)
         \o MonthEntries(Tail(data))

\* C8, as stated: parse_series of a monthly series that contains M13 rows
\* returns a parsed series with exactly one entry per observation of code
\* M01..M12, in input order and indexed by its (year, month), and no entry for
\* an M13 observation.
C8_M13RowsDropped ==
    (/\ query.api = "parse_series"
     /\ Val(parse_arg).data # <<>>
     /\ Freq(Val(parse_arg).data) = "M"
     /\ \E i \in 1 .. Len(Val(parse_arg).data) : Val(parse_arg).data[i].period = <<"M", 13>>)
    => /\ outcome = "parsed"
       /\ Val(result) = MonthEntries(Val(parse_arg).data)

====
